---- MODULE Spec2Model ----
(***************************************************************************)
(* Model of the two batch scripts of gre_prep.                             *)
(*                                                                         *)
(*   scripts/anki.py    Deck Builder : spreadsheet rows -> notes of a deck *)
(*   scripts/update.py  Deck Enricher: cards of the local flashcard        *)
(*                      service + remote dictionary -> appended HTML       *)
(*                                                                         *)
(* A text (a Python str) is a sequence of tokens; concatenation is \o and  *)
(* the empty string is << >>.  The tokens that matter to the code are kept *)
(* apart: "Definitions:" (the literal the candidate filter looks for),     *)
(* "\n" (the only character "." refuses without re.DOTALL) and " " (what   *)
(* str.strip removes).  A Python value that may be None is a record        *)
(* [some, v]; a call that may raise is a record with an exc field.         *)
(***************************************************************************)
EXTENDS Integers, Sequences, FiniteSets, TLC

VARIABLES
    \* ---- scripts/update.py: the world the enricher talks to
    deck,             \* the notes of the deck in the local flashcard service, in service order
    deck0,            \* the deck as it was before the first run (history)
    json_error_is_request_exception,
                      \* whether the installed requests raises a RequestException
                      \* subclass from response.json() (requests >= 2.27) or a ValueError
    run,              \* how many times the enricher has been started
    \* ---- scripts/update.py: the process
    pc,               \* "start", "select", "loop", "done", "exit1"
    exit_code,        \* -1 while running, 0 or 1 afterwards
    probe,            \* the outcome of check_anki_connect's request ("none" before)
    cards,            \* main: cards (the candidate list)
    idx,              \* main: idx of the next card to process (enumerate from 1)
    success_count,    \* main: success_count
    skip_count,       \* main: skip_count
    lookup,           \* the HTTP response get_cambridge_definition received last
    new_content,      \* main: new_content (None or the formatted block)
    update,           \* the outcome of update_card's request in the last iteration
    http_log,         \* the requests this run has issued, in order
    stdout,           \* what this run has printed, as tags
    \* ---- scripts/update.py: format_definition on its own
    f_pc,             \* "input", "done"
    f_in,             \* api_response
    f_out,            \* what format_definition did: [exc, some, lines, v]
    \* ---- scripts/anki.py
    b_pc,             \* "rows", "written"
    df,               \* the DataFrame read from the spreadsheet
    row_i,            \* position of df.iterrows()
    deck_notes,       \* deck.notes
    package           \* the notes written to out/gre_vocabulary.apkg (None before)

vars == <<deck, deck0, json_error_is_request_exception, run, pc, exit_code, probe, cards, idx,
          success_count, skip_count, lookup, new_content, update, http_log, stdout,
          f_pc, f_in, f_out, b_pc, df, row_i, deck_notes, package>>

enricher_vars == <<deck, deck0, json_error_is_request_exception, run, pc, exit_code,
                   probe, cards, idx, success_count, skip_count, lookup, new_content, update,
                   http_log, stdout>>
format_vars == <<f_pc, f_in, f_out>>
builder_vars == <<b_pc, df, row_i, deck_notes, package>>

----------------------------------------------------------------------------
(* Bounds of the model.                                                    *)

MaxEntries == 2     \* entries in the "definition" list of a dictionary response
MaxNotes == 2       \* notes in the deck of the flashcard service
MaxRuns == 2        \* starts of the enricher over the same deck
MaxRows == 2        \* rows of the spreadsheet

----------------------------------------------------------------------------
(* Python values.                                                          *)

None == [some |-> FALSE, v |-> << >>]
Some(t) == [some |-> TRUE, v |-> t]

\* "sep".join(lines)
RECURSIVE Join(_, _)
Join(lines, sep) ==
    IF lines = << >> THEN << >>
    ELSE IF Len(lines) = 1 THEN lines[1]
    ELSE lines[1] \o sep \o Join(Tail(lines), sep)

\* str.strip(): leading and trailing whitespace removed
RECURSIVE lstrip(_)
lstrip(t) == IF t # << >> /\ t[1] = " " THEN lstrip(Tail(t)) ELSE t

RECURSIVE rstrip(_)
rstrip(t) ==
    IF t # << >> /\ t[Len(t)] = " " THEN rstrip(SubSeq(t, 1, Len(t) - 1)) ELSE t

strip(t) == rstrip(lstrip(t))

\* str.lower() on the part-of-speech strings of the model
lower(s) ==
    CASE s = "Verb" -> "verb"
      [] s = "Noun" -> "noun"
      [] s = "NOUN" -> "noun"
      [] s = "Adjective" -> "adjective"
      [] s = "Adverb" -> "adverb"
      [] OTHER -> s

----------------------------------------------------------------------------
(* JSON values of a dictionary response.  k is the JSON type; "absent" is  *)
(* a key the object does not have.                                         *)

JAbsent == [k |-> "absent"]
JNull == [k |-> "null"]
JStr(s) == [k |-> "str", v |-> s]          \* an atomic string (a part of speech)
JText(t) == [k |-> "str", t |-> t]         \* a string as a text
JNum(n) == [k |-> "num", v |-> n]
JList(s) == [k |-> "list", v |-> s]
JEntry(p, t, e) == [k |-> "dict", pos |-> p, text |-> t, example |-> e]
JExample(t) == [k |-> "dict", text |-> t]
JBody(d) == [k |-> "dict", definition |-> d]

\* bool(x) of a parsed JSON value: None, {}, [], "", 0 are falsy
Truthy(j) ==
    CASE j.k = "null" -> FALSE
      [] j.k = "emptydict" -> FALSE
      [] j.k = "list" -> j.v # << >>
      [] j.k = "str" -> j.t # << >>
      [] j.k = "num" -> j.v # 0
      [] OTHER -> TRUE

----------------------------------------------------------------------------
(* format_definition, update.py:48-109.                                    *)

\* sections, in the insertion order of the dict literal (lines 54-59)
SectionOrder == <<"Verb", "Noun", "Adjective", "Adverb">>

EmptySections == [c \in {"Verb", "Noun", "Adjective", "Adverb"} |-> << >>]

\* pos_mapping (lines 62-67)
PosKeys == {"verb", "noun", "adjective", "adverb"}

pos_mapping(p) ==
    CASE p = "verb" -> "Verb"
      [] p = "noun" -> "Noun"
      [] p = "adjective" -> "Adjective"
      [] p = "adverb" -> "Adverb"

\* entry.get("pos", "").lower() (line 72): [exc, v]
EntryPos(entry) ==
    IF entry.k # "dict" THEN [exc |-> TRUE, v |-> ""]          \* no .get on a non-dict
    ELSE CASE entry.pos.k = "absent" -> [exc |-> FALSE, v |-> ""]
           [] entry.pos.k = "str" -> [exc |-> FALSE, v |-> lower(entry.pos.v)]
           [] OTHER -> [exc |-> TRUE, v |-> ""]                \* None.lower(), (5).lower()

\* entry.get("text", "").strip() (line 75): [exc, v]
EntryText(entry) ==
    CASE entry.text.k = "absent" -> [exc |-> FALSE, v |-> << >>]
      [] entry.text.k = "str" -> [exc |-> FALSE, v |-> strip(entry.text.t)]
      [] OTHER -> [exc |-> TRUE, v |-> << >>]                  \* None.strip()

\* ex.get("text", "") of one example (line 76): [exc, v], v a JSON value
ExampleText(ex) ==
    IF ex.k # "dict" THEN [exc |-> TRUE, v |-> JNull]
    ELSE IF ex.text.k = "absent" THEN [exc |-> FALSE, v |-> JText(<< >>)]
    ELSE [exc |-> FALSE, v |-> ex.text]

\* [ex.get("text", "") for ex in entry.get("example", [])] (line 76): [exc, v]
EntryExamples(entry) ==
    CASE entry.example.k = "absent" -> [exc |-> FALSE, v |-> << >>]
      [] entry.example.k = "list" ->
           [exc |-> \E i \in DOMAIN entry.example.v : ExampleText(entry.example.v[i]).exc,
            v |-> [i \in DOMAIN entry.example.v |-> ExampleText(entry.example.v[i]).v]]
      [] OTHER -> [exc |-> TRUE, v |-> << >>]                  \* iterating None or a number

Raised(acc) == [acc EXCEPT !.exc = TRUE]

\* one pass of the loop body, lines 72-82; acc = [exc, has_valid_definitions, sections]
EntryStep(acc, entry) ==
    LET pos == EntryPos(entry) IN
    IF pos.exc THEN Raised(acc)
    ELSE IF pos.v \notin PosKeys THEN acc
    ELSE LET category == pos_mapping(pos.v)
             definition == EntryText(entry)
             examples == EntryExamples(entry)
         IN  IF definition.exc \/ examples.exc THEN Raised(acc)
             ELSE IF definition.v = << >> THEN acc
             ELSE [exc |-> FALSE,
                   has_valid_definitions |-> TRUE,
                   sections |-> [acc.sections EXCEPT ![category] =
                                    Append(@, [definition |-> definition.v,
                                               examples |-> examples.v])]]

\* the loop of lines 71-82 over the entries from position i on
RECURSIVE ProcessEntries(_, _, _)
ProcessEntries(acc, entries, i) ==
    IF acc.exc \/ i > Len(entries) THEN acc
    ELSE ProcessEntries(EntryStep(acc, entries[i]), entries, i + 1)

\* api_response.get("definition", []) as the sequence the for statement iterates
\* (line 71): [exc, v]
DefinitionEntries(api_response) ==
    IF api_response.k # "dict" THEN [exc |-> TRUE, v |-> << >>]   \* list, str, number: no .get
    ELSE CASE api_response.definition.k = "absent" -> [exc |-> FALSE, v |-> << >>]
           [] api_response.definition.k = "list" ->
                [exc |-> FALSE, v |-> api_response.definition.v]
           \* a str iterates its characters, each of which has no .get
           [] api_response.definition.k = "str" ->
                [exc |-> FALSE,
                 v |-> [i \in DOMAIN api_response.definition.t |-> JText(<<"c">>)]]
           [] OTHER -> [exc |-> TRUE, v |-> << >>]                \* None, a number

\* str(example) inside the f-string of line 103
ExampleStr(j) == IF j.k = "null" THEN <<"None">> ELSE j.t

\* lines 98-103 for one definition
DefinitionLines(def_idx, def_data) ==
    << <<"<div style='margin-left: 20px'>", ToString(def_idx), ". ">>
          \o def_data.definition \o <<"</div>">> >>
    \o (IF def_data.examples # << >>
        THEN << <<"<div style='margin-left: 40px'><i>Examples:</i></div>">> >>
             \o [ex_idx \in DOMAIN def_data.examples |->
                   <<"<div style='margin-left: 40px'>", ToString(ex_idx), ". ">>
                      \o ExampleStr(def_data.examples[ex_idx]) \o <<"</div>">>]
        ELSE << >>)

RECURSIVE AllDefinitionLines(_, _)
AllDefinitionLines(definitions, def_idx) ==
    IF def_idx > Len(definitions) THEN << >>
    ELSE DefinitionLines(def_idx, definitions[def_idx])
            \o AllDefinitionLines(definitions, def_idx + 1)

\* lines 90-107 for the section at position idx of sections.items()
SectionLines(sec_idx, sections) ==
    LET pos == SectionOrder[sec_idx]
        definitions == sections[pos]
    IN  IF definitions = << >> THEN << >>
        ELSE << <<"\n", "<div>", ToString(sec_idx), ". <b>", pos, ":</b></div>">> >>
             \o AllDefinitionLines(definitions, 1)
             \o << <<"<div style='margin-left: 20px'>- Sentences:</div>">>,
                   <<"<div style='margin-left: 20px'>- Synonyms:</div>">> >>

\* the header without the word the candidate filter looks for
BlockHeader_OtherWord == <<"<hr><div><b>", "Definition:", "</b></div>">>

\* line 88
BlockHeader == <<"<hr><div><b>", "Definitions:", "</b></div>">>

\* the list output at line 109
OutputLines(sections) ==
    <<BlockHeader>> \o SectionLines(1, sections) \o SectionLines(2, sections)
        \o SectionLines(3, sections) \o SectionLines(4, sections)

\* format_definition(word, api_response); api_response is None or Some(JSON value).
\* [exc, some, lines, v]: raised, or returned None (some = FALSE), or returned the
\* text v = "\n".join(lines)
format_definition(api_response) ==
    LET none == [exc |-> FALSE, some |-> FALSE, lines |-> << >>, v |-> << >>]
        raised == [exc |-> TRUE, some |-> FALSE, lines |-> << >>, v |-> << >>]
    IN  IF ~api_response.some \/ ~Truthy(api_response.v) THEN none
        ELSE LET entries == DefinitionEntries(api_response.v) IN
             IF entries.exc THEN raised
             ELSE LET acc == ProcessEntries([exc |-> FALSE,
                                             has_valid_definitions |-> FALSE,
                                             sections |-> EmptySections],
                                            entries.v, 1)
                  IN  IF acc.exc THEN raised
                      ELSE IF ~acc.has_valid_definitions THEN none
                      ELSE [exc |-> FALSE, some |-> TRUE,
                            lines |-> OutputLines(acc.sections),
                            v |-> Join(OutputLines(acc.sections), <<"\n">>)]

----------------------------------------------------------------------------
(* format_definition applied to every response of a bounded family.        *)

\* parts of speech a response may carry: the four accepted ones in the spellings
\* lower() folds, one the mapping does not know, a missing key, a null
PosValues ==
    {JStr("verb"), JStr("noun"), JStr("Adjective"), JStr("adverb"),
     JStr("pronoun"), JAbsent, JNull}

\* definition texts: two that differ, one of them padded, an empty and a blank
\* one, a null
TextValues ==
    {JText(<<"clear">>), JText(<<" ", "bright", " ">>), JText(<< >>), JText(<<" ">>),
     JNull}

\* example lists
ExampleValues ==
    {JAbsent, JList(<<JExample(JText(<<"a lucid account">>))>>), JNull}

Entries ==
    {JEntry(p, t, e) : p \in PosValues, t \in TextValues, e \in ExampleValues}
        \cup {JText(<<"oops">>)}

RECURSIVE SeqsUpTo(_, _)
SeqsUpTo(S, n) ==
    IF n = 0 THEN {<< >>}
    ELSE LET shorter == SeqsUpTo(S, n - 1)
         IN  shorter \cup {Append(q, x) : q \in {r \in shorter : Len(r) = n - 1}, x \in S}

\* what main can hand to format_definition: None, or the parsed body
ApiResponses ==
    {None, Some(JNull), Some([k |-> "emptydict"]), Some(JList(<<JNum(1)>>)),
     Some(JBody(JAbsent)), Some(JBody(JNull)), Some(JBody(JText(<<"n", "o">>)))}
        \cup {Some(JBody(JList(es))) : es \in SeqsUpTo(Entries, MaxEntries)}

NotRun == [exc |-> FALSE, some |-> FALSE, lines |-> << >>, v |-> << >>]

FormatIdle == f_pc = "off" /\ f_in = None /\ f_out = NotRun

FormatCall ==
    /\ f_pc = "input"
    /\ f_out' = format_definition(f_in)
    /\ f_pc' = "done"
    /\ UNCHANGED f_in

----------------------------------------------------------------------------
(* The local flashcard service and the requests of update.py.              *)

\* every HTTP call ends in an OK response, a non-OK response, or an exception
\* (requests.exceptions.RequestException, or a body that is not what the code indexes)
HttpOutcomes == {"ok", "notok", "exc"}

NoteIds == 1 .. MaxNotes

\* the Word field of a note (one word per note id)
WordOf(id) == <<"lucid", "abate", "terse", "wane", "zeal">>[id]

\* Details values a card may hold before the enricher runs: empty, what the deck
\* builder wrote, a block after a line break, and the lower-case spelling
InitialDetails ==
    {<< >>,
     <<"<div><b>Paraphrase:</b> ", "clear", "</div>">>,
     <<"<div>", "clear", "</div>", "\n", "<hr><div><b>", "Definitions:", "</b></div>">>,
     <<"definitions:", " none">>}

Notes == [noteId : NoteIds, Word : {WordOf(i) : i \in NoteIds}, Details : InitialDetails]

\* the decks: n <= MaxNotes notes with distinct ids, which the service lists in
\* its own order (here by descending id)
Decks ==
    {d \in SeqsUpTo({n \in Notes : n.Word = WordOf(n.noteId)}, MaxNotes) :
        \A i \in DOMAIN d : d[i].noteId = Len(d) + 1 - i}

Request(action, arg) == [action |-> action, arg |-> arg]

\* the probe taken for good when the request raises
check_anki_connect_TrueOnException(r) == r # "notok"

\* check_anki_connect, update.py:14-23, on the outcome of its request
check_anki_connect(r) == r = "ok"

\* re.compile(r".*Definitions:.*", flags).match(text): "." matches every character
\* with re.DOTALL and every character but "\n" without; match anchors at the start
\* only
PatternMatch(text, dotall) ==
    \E k \in DOMAIN text :
        /\ text[k] = "Definitions:"
        /\ \A j \in 1 .. k - 1 : dotall \/ text[j] # "\n"

\* the filter compiled without re.DOTALL
NeedsUpdate_NoDotAll(note) == ~PatternMatch(note.Details, FALSE)

\* the filter of update.py:160-162
NeedsUpdate(note) == ~PatternMatch(note.Details, TRUE)

filtered_notes(notes) == SelectSeq(notes, NeedsUpdate)

\* the new content posted in place of the old
update_request_Overwrite(note_id, existing_content, content) ==
    Request("updateNoteFields", [id |-> note_id, fields |-> [Details |-> content]])

\* the body update_card posts, update.py:167-180
update_request(note_id, existing_content, content) ==
    Request("updateNoteFields",
            [id |-> note_id, fields |-> [Details |-> existing_content \o content]])

\* update_card reporting success whatever the response
update_card_AlwaysTrue(ur) == TRUE

\* what update_card returns (line 181) when its request does not raise
update_card(ur) == ur = "ok"

\* the service applying an updateNoteFields request to its notes
ApplyUpdate(d, req) ==
    [i \in DOMAIN d |->
        IF d[i].noteId = req.arg.id
        THEN [d[i] EXCEPT !.Details = req.arg.fields.Details]
        ELSE d[i]]

\* what the dictionary service may answer to a lookup
NounEntry == JEntry(JStr("noun"), JText(<<" ", "clear", " ">>), JAbsent)
VerbEntry == JEntry(JStr("Verb"), JText(<<"to clear">>),
                    JList(<<JExample(JText(<<"a lucid account">>))>>))

LookupBodies ==
    {[k |-> "invalid"],                                      \* not JSON at all
     JNull,
     JBody(JList(<< >>)),
     JBody(JList(<<JEntry(JStr("pronoun"), JText(<<"it">>), JAbsent)>>)),
     JBody(JList(<<JEntry(JStr("noun"), JText(<<" ">>), JAbsent)>>)),
     JBody(JList(<<NounEntry, VerbEntry>>)),
     JBody(JText(<<"n", "o">>)),                              \* "definition" not a list
     JBody(JList(<<JEntry(JNull, JText(<<"clear">>), JAbsent)>>)),
     JBody(JList(<<JEntry(JStr("noun"), JNull, JAbsent)>>))}

LookupResponses ==
    {[status |-> "exc", body |-> JNull], [status |-> "notok", body |-> JNull]}
        \cup {[status |-> "ok", body |-> b] : b \in LookupBodies}

NoLookup == [status |-> "none", body |-> JNull]

\* get_cambridge_definition, update.py:35-46, on the response to its GET:
\* [exc, warned, v]
get_cambridge_definition(resp, json_caught) ==
    CASE resp.status = "exc" -> [exc |-> FALSE, warned |-> TRUE, v |-> None]
      [] resp.status = "notok" -> [exc |-> FALSE, warned |-> TRUE, v |-> None]
      [] OTHER ->
           IF resp.body.k = "invalid"
           THEN IF json_caught
                THEN [exc |-> FALSE, warned |-> TRUE, v |-> None]
                ELSE [exc |-> TRUE, warned |-> FALSE, v |-> None]
           ELSE [exc |-> FALSE, warned |-> FALSE, v |-> Some(resp.body)]

----------------------------------------------------------------------------
(* main of update.py, lines 183-224.                                       *)

EnricherStart ==
    /\ pc = "start"
    /\ exit_code = -1
    /\ probe = "none"
    /\ cards = << >>
    /\ idx = 1
    /\ success_count = 0
    /\ skip_count = 0
    /\ lookup = NoLookup
    /\ new_content = None
    /\ update = "none"
    /\ http_log = << >>
    /\ stdout = << >>

EnricherIdle ==
    /\ deck = << >>
    /\ deck0 = << >>
    /\ json_error_is_request_exception = TRUE
    /\ run = 0
    /\ pc = "off"
    /\ exit_code = -1
    /\ probe = "none"
    /\ cards = << >>
    /\ idx = 1
    /\ success_count = 0
    /\ skip_count = 0
    /\ lookup = NoLookup
    /\ new_content = None
    /\ update = "none"
    /\ http_log = << >>
    /\ stdout = << >>

\* the lines printed at 217-220
Summary(success, skipped, total) ==
    [tag |-> "summary", success |-> success, skipped |-> skipped, total |-> total]

Line(tag) == [tag |-> tag]

\* lines 185-187: the version probe; sys.exit(1) when it fails
CheckAnkiConnect ==
    /\ pc = "start"
    /\ \E r \in HttpOutcomes :
          /\ http_log' = Append(http_log, Request("version", 0))
          /\ probe' = r
          /\ IF check_anki_connect(r)
             THEN /\ pc' = "select"
                  /\ UNCHANGED <<exit_code, stdout>>
             ELSE /\ pc' = "exit1"
                  /\ exit_code' = 1
                  /\ stdout' = Append(stdout, Line("cannot connect"))
    /\ UNCHANGED <<deck, deck0, json_error_is_request_exception, run, cards, idx,
                   success_count, skip_count, lookup, new_content, update>>

\* lines 190-194 with get_cards_to_update (111-165) and get_deck_names (25-33).
\* rd, rf, rn: the outcomes of deckNames, findNotes, notesInfo.  An exception, or a
\* non-OK findNotes or notesInfo, reaches the handler of lines 222-224.  With no
\* candidate the loop body never runs and the summary is printed at once.
GetCardsToUpdate ==
    /\ pc = "select"
    /\ \E rd, rf, rn \in HttpOutcomes :
          LET asked_find == rd # "exc"
              found == asked_find /\ rf = "ok"
              asked_info == found /\ deck # << >>
              failed == ~found \/ (asked_info /\ rn # "ok")
              selected == IF failed THEN << >> ELSE filtered_notes(deck)
              log1 == Append(http_log, Request("deckNames", 0))
              log2 == IF asked_find THEN Append(log1, Request("findNotes", 0)) ELSE log1
              log3 == IF asked_info THEN Append(log2, Request("notesInfo", 0)) ELSE log2
          IN  /\ http_log' = log3
              /\ cards' = selected
              /\ IF failed
                 THEN /\ pc' = "exit1"
                      /\ exit_code' = 1
                      /\ stdout' = Append(stdout, Line("An error occurred"))
                 ELSE IF selected = << >>
                 THEN /\ pc' = "done"
                      /\ exit_code' = 0
                      /\ stdout' = Append(stdout, Summary(0, 0, 0))
                 ELSE /\ pc' = "loop"
                      /\ UNCHANGED <<exit_code, stdout>>
    /\ UNCHANGED <<deck, deck0, json_error_is_request_exception, run, probe, idx,
                   success_count, skip_count, lookup, new_content, update>>

\* the handler of lines 222-224: the exception is printed and the process exits 1
Abort(out) ==
    /\ pc' = "exit1"
    /\ exit_code' = 1
    /\ stdout' = Append(out, Line("An error occurred"))

\* the end of a pass of the loop: the next card, or after the last one the summary
\* of lines 217-220 and a normal exit
Advance(out, success, skipped) ==
    /\ idx' = idx + 1
    /\ success_count' = success
    /\ skip_count' = skipped
    /\ IF idx = Len(cards)
       THEN /\ pc' = "done"
            /\ exit_code' = 0
            /\ stdout' = Append(out, Summary(success, skipped, Len(cards)))
       ELSE /\ pc' = "loop"
            /\ stdout' = out
            /\ UNCHANGED exit_code

\* one pass of the loop body, lines 196-215.  resp: the dictionary's answer; ur: the
\* outcome of the updateNoteFields request; applied: whether the service stored the
\* new value (an OK answer can carry an error, and an answer can be lost after the
\* write; a non-OK answer means the service refused).
ProcessCard ==
    /\ pc = "loop"
    /\ idx <= Len(cards)
    /\ \E resp \in LookupResponses :
          LET card == cards[idx]
              definitions == get_cambridge_definition(resp, json_error_is_request_exception)
              formatted == format_definition(definitions.v)
              log1 == Append(http_log, Request("GET", card.Word))
              out1 == IF definitions.warned
                      THEN Append(stdout, Line("Warning")) ELSE stdout
          IN  /\ lookup' = resp
              /\ IF definitions.exc \/ formatted.exc
                 THEN \* line 200 or 201 raised
                      /\ Abort(out1)
                      /\ http_log' = log1
                      /\ update' = "none"
                      /\ UNCHANGED <<deck, new_content, idx, success_count, skip_count>>
                 ELSE IF ~formatted.some
                 THEN \* lines 203-206
                      /\ new_content' = None
                      /\ http_log' = log1
                      /\ update' = "none"
                      /\ Advance(Append(out1, Line("Skipping")), success_count,
                                 skip_count + 1)
                      /\ UNCHANGED deck
                 ELSE \* lines 208-215
                      \E ur \in HttpOutcomes, applied \in BOOLEAN :
                         LET req == update_request(card.noteId, card.Details, formatted.v)
                         IN  /\ applied => ur # "notok"
                             /\ new_content' = Some(formatted.v)
                             /\ http_log' = Append(log1, req)
                             /\ update' = ur
                             /\ deck' = IF applied THEN ApplyUpdate(deck, req) ELSE deck
                             /\ IF ur = "exc"
                                THEN /\ Abort(out1)
                                     /\ UNCHANGED <<idx, success_count, skip_count>>
                                ELSE IF update_card(ur)
                                THEN Advance(Append(out1, Line("Successfully updated")),
                                             success_count + 1, skip_count)
                                ELSE Advance(Append(out1, Line("Failed to update")),
                                             success_count, skip_count)
    /\ UNCHANGED <<deck0, json_error_is_request_exception, run, probe, cards>>

\* the script is started again on the deck as the previous run left it
NextRun ==
    /\ pc \in {"done", "exit1"}
    /\ run < MaxRuns
    /\ run' = run + 1
    /\ pc' = "start"
    /\ exit_code' = -1
    /\ probe' = "none"
    /\ cards' = << >>
    /\ idx' = 1
    /\ success_count' = 0
    /\ skip_count' = 0
    /\ lookup' = NoLookup
    /\ new_content' = None
    /\ update' = "none"
    /\ http_log' = << >>
    /\ stdout' = << >>
    /\ UNCHANGED <<deck, deck0, json_error_is_request_exception>>

----------------------------------------------------------------------------
(* scripts/anki.py.                                                        *)

\* a cell of the DataFrame: NaN, or a value
NaN == [na |-> TRUE, v |-> ""]
Cell(s) == [na |-> FALSE, v |-> s]

\* pd.isna
isna(c) == c.na

Columns ==
    {"Word", "UK Phonetics", "US Phonetics", "Paraphrase", "Paraphrase (w/ POS)",
     "Paraphrase (English)"}

CellValues(col) ==
    CASE col = "Word" -> {NaN, Cell("lucid")}
      [] col = "UK Phonetics" -> {NaN, Cell("/lu:sid/")}
      [] col = "US Phonetics" -> {NaN, Cell("/lusid/")}
      [] col = "Paraphrase" -> {NaN, Cell("clear")}
      [] col = "Paraphrase (w/ POS)" -> {NaN, Cell("adj. clear")}
      [] col = "Paraphrase (English)" -> {NaN, Cell("easy to understand")}

Rows == {r \in [Columns -> UNION {CellValues(c) : c \in Columns}] :
            \A c \in Columns : r[c] \in CellValues(c)}

\* the fragment written without looking at pd.isna
Fragment_NoNaCheck(row, col, opening) == <<opening, row[col].v, "</div>">>

\* one "if not pd.isna(row[col]): details += ..." of lines 44-61
Fragment(row, col, opening) ==
    IF ~isna(row[col]) THEN <<opening, row[col].v, "</div>">> ELSE << >>

\* details as built by lines 42-61
Details(row) ==
    Fragment(row, "UK Phonetics", "<div><b>UK Phonetics:</b> ")
        \o Fragment(row, "US Phonetics", "<div><b>US Phonetics:</b> ")
        \o Fragment(row, "Paraphrase", "<div><b>Paraphrase:</b> ")
        \o Fragment(row, "Paraphrase (w/ POS)", "<div><b>Paraphrase (w/ POS):</b> ")
        \o Fragment(row, "Paraphrase (English)", "<div><b>Paraphrase (English):</b> ")

\* a row also skipped for a missing Paraphrase
SkipRow_AlsoWithoutParaphrase(row) == isna(row["Word"]) \/ isna(row["Paraphrase"])

\* line 38
SkipRow(row) == isna(row["Word"])

\* line 64: genanki.Note(model=gre_model, fields=[str(row["Word"]), details])
Note(row) == [fields |-> <<row["Word"].v, Details(row)>>]

\* line 65: deck.add_note(note)
add_note(notes, note) == Append(notes, note)

BuilderIdle ==
    /\ b_pc = "off"
    /\ df = << >>
    /\ row_i = 1
    /\ deck_notes = << >>
    /\ package = None

\* one pass of the loop of lines 36-65
NextRow ==
    /\ b_pc = "rows"
    /\ row_i <= Len(df)
    /\ deck_notes' = IF SkipRow(df[row_i]) THEN deck_notes
                     ELSE add_note(deck_notes, Note(df[row_i]))
    /\ row_i' = row_i + 1
    /\ UNCHANGED <<b_pc, df, package>>

\* lines 67-76: the package is written once, after the last row
WritePackage ==
    /\ b_pc = "rows"
    /\ row_i > Len(df)
    /\ package' = Some(deck_notes)
    /\ b_pc' = "written"
    /\ UNCHANGED <<df, row_i, deck_notes>>

----------------------------------------------------------------------------
(* Specifications.                                                         *)

\* the enricher, started up to MaxRuns times on one deck
Init ==
    /\ deck \in Decks
    /\ deck0 = deck
    /\ json_error_is_request_exception \in BOOLEAN
    /\ run = 1
    /\ EnricherStart
    /\ FormatIdle
    /\ BuilderIdle

Next ==
    \/ CheckAnkiConnect /\ UNCHANGED format_vars /\ UNCHANGED builder_vars
    \/ GetCardsToUpdate /\ UNCHANGED format_vars /\ UNCHANGED builder_vars
    \/ ProcessCard /\ UNCHANGED format_vars /\ UNCHANGED builder_vars
    \/ NextRun /\ UNCHANGED format_vars /\ UNCHANGED builder_vars

Spec == Init /\ [][Next]_vars

\* format_definition on every response of the bounded family
FormatInit ==
    /\ f_pc = "input"
    /\ f_in \in ApiResponses
    /\ f_out = NotRun
    /\ EnricherIdle
    /\ BuilderIdle

FormatNext == FormatCall /\ UNCHANGED enricher_vars /\ UNCHANGED builder_vars

FormatSpec == FormatInit /\ [][FormatNext]_vars

\* the deck builder on every table of up to MaxRows rows
BuilderInit ==
    /\ b_pc = "rows"
    /\ df \in SeqsUpTo(Rows, MaxRows)
    /\ row_i = 1
    /\ deck_notes = << >>
    /\ package = None
    /\ EnricherIdle
    /\ FormatIdle

BuilderNext ==
    \/ NextRow /\ UNCHANGED enricher_vars /\ UNCHANGED format_vars
    \/ WritePackage /\ UNCHANGED enricher_vars /\ UNCHANGED format_vars

BuilderSpec == BuilderInit /\ [][BuilderNext]_vars

----------------------------------------------------------------------------
(* Deck Builder claims (BuilderSpec).                                      *)

\* the rows iterrows has yielded so far
RowsDone == 1 .. (row_i - 1)

HasWord(k) == ~df[k]["Word"].na

\* the position, among the rows with a Word, of row k
Rank(k) == Cardinality({m \in 1 .. k : HasWord(m)})

\* C1: a row without a Word produces no note and every other row exactly one, in
\* row order: after any number of rows the deck holds one note per row with a Word
\* seen so far, the note of the j-th such row at position j, and the package
\* written at the end holds (number of rows) - (rows without a Word) notes.
C1_OneNotePerRowWithWord ==
    /\ Len(deck_notes) = (row_i - 1) - Cardinality({k \in RowsDone : ~HasWord(k)})
    /\ \A k \in RowsDone :
          HasWord(k) => /\ Rank(k) \in DOMAIN deck_notes
                        /\ deck_notes[Rank(k)].fields[1] = df[k]["Word"].v
                        /\ deck_notes[Rank(k)].fields[2] = Details(df[k])
    /\ b_pc = "written" =>
          /\ package.some
          /\ package.v = deck_notes
          /\ Len(package.v) =
                Len(df) - Cardinality({k \in DOMAIN df : ~HasWord(k)})

\* a run over two rows, the first without a Word, that wrote one note, and the
\* note is the second row's
C1_Witness ==
    /\ b_pc = "written"
    /\ Len(df) = 2
    /\ ~HasWord(1)
    /\ HasWord(2)
    /\ ~df[2]["Paraphrase"].na
    /\ Len(package.v) = 1
    /\ package.v[1].fields[2] = Details(df[2])

FieldOrder ==
    <<"UK Phonetics", "US Phonetics", "Paraphrase", "Paraphrase (w/ POS)",
      "Paraphrase (English)">>

Opening(col) ==
    CASE col = "UK Phonetics" -> "<div><b>UK Phonetics:</b> "
      [] col = "US Phonetics" -> "<div><b>US Phonetics:</b> "
      [] col = "Paraphrase" -> "<div><b>Paraphrase:</b> "
      [] col = "Paraphrase (w/ POS)" -> "<div><b>Paraphrase (w/ POS):</b> "
      [] col = "Paraphrase (English)" -> "<div><b>Paraphrase (English):</b> "

\* the number of fields present in row k among the first f of FieldOrder
PresentUpTo(k, f) == Cardinality({g \in 1 .. f : ~df[k][FieldOrder[g]].na})

\* C2: the Details of the note of a row is one labeled <div> fragment per present
\* optional field and nothing else, in the order UK Phonetics, US Phonetics,
\* Paraphrase, Paraphrase (w/ POS), Paraphrase (English): the fragment of the
\* f-th field, when the field is present, sits right after the fragments of the
\* present fields before it, whatever the other fields are.
C2_DetailsIsFragmentsInOrder ==
    \A k \in RowsDone :
        HasWord(k) =>
            LET details == deck_notes[Rank(k)].fields[2] IN
            /\ Len(details) = 3 * PresentUpTo(k, 5)
            /\ \A f \in 1 .. 5 :
                  ~df[k][FieldOrder[f]].na =>
                      LET at == 3 * (PresentUpTo(k, f) - 1) IN
                      /\ details[at + 1] = Opening(FieldOrder[f])
                      /\ details[at + 2] = df[k][FieldOrder[f]].v
                      /\ details[at + 3] = "</div>"

\* the row {Word: lucid, Paraphrase: clear} gave exactly the Paraphrase fragment,
\* and a row with all five fields gave five fragments
C2_Witness ==
    /\ b_pc = "written"
    /\ Len(df) = 2
    /\ HasWord(1)
    /\ \A c \in Columns : df[1][c].na <=> c \notin {"Word", "Paraphrase"}
    /\ deck_notes[1].fields = <<"lucid", <<"<div><b>Paraphrase:</b> ", "clear", "</div>">> >>
    /\ \A c \in Columns : ~df[2][c].na
    /\ Len(deck_notes[2].fields[2]) = 15

----------------------------------------------------------------------------
(* format_definition claims (FormatSpec).                                  *)

\* the section a part of speech belongs to, "" when it is none of the four
CategoryOf(p) ==
    CASE p \in {"verb", "Verb"} -> "Verb"
      [] p \in {"noun", "Noun", "NOUN"} -> "Noun"
      [] p \in {"adjective", "Adjective"} -> "Adjective"
      [] p \in {"adverb", "Adverb"} -> "Adverb"
      [] OTHER -> ""

\* the entries of the response handed to format_definition
InEntries ==
    IF f_in.some /\ f_in.v.k = "dict" /\ f_in.v.definition.k = "list"
    THEN f_in.v.definition.v ELSE << >>

\* a response of the documented shape but for the part of speech: a definition
\* list of objects whose text is a string and whose example list, if any, is a
\* list of objects
EntriesAreObjects ==
    /\ f_in.some
    /\ f_in.v.k = "dict"
    /\ f_in.v.definition.k = "list"
    /\ \A i \in DOMAIN InEntries :
          /\ InEntries[i].k = "dict"
          /\ InEntries[i].text.k = "str"
          /\ InEntries[i].example.k \in {"absent", "list"}

\* the response is of the documented shape: moreover every part of speech is a
\* string or missing
DocumentedShape ==
    /\ EntriesAreObjects
    /\ \A i \in DOMAIN InEntries : InEntries[i].pos.k \in {"str", "absent"}

\* entry e has the part of speech of section cat and a definition text
InSection(e, cat) ==
    /\ e.pos.k = "str"
    /\ CategoryOf(e.pos.v) = cat
    /\ strip(e.text.t) # << >>

\* the definition texts the block should show under cat, in response order
RECURSIVE ExpectedFrom(_, _)
ExpectedFrom(cat, i) ==
    IF i > Len(InEntries) THEN << >>
    ELSE (IF InSection(InEntries[i], cat) THEN <<strip(InEntries[i].text.t)>> ELSE << >>)
            \o ExpectedFrom(cat, i + 1)

IsHeaderLine(l) == Len(l) = 6 /\ l[1] = "\n" /\ l[2] = "<div>"

IsDefinitionLine(l) == Len(l) >= 4 /\ l[1] = "<div style='margin-left: 20px'>"

\* the section names of the rendered block, in block order
RenderedHeaders ==
    LET hs == SelectSeq(f_out.lines, IsHeaderLine) IN [i \in DOMAIN hs |-> hs[i][5]]

\* the definition texts rendered from line i on, up to the next section header
RECURSIVE RenderedFrom(_)
RenderedFrom(i) ==
    IF i > Len(f_out.lines) \/ IsHeaderLine(f_out.lines[i]) THEN << >>
    ELSE (IF IsDefinitionLine(f_out.lines[i])
          THEN <<SubSeq(f_out.lines[i], 4, Len(f_out.lines[i]) - 1)>> ELSE << >>)
            \o RenderedFrom(i + 1)

\* the definition texts rendered under cat (none when cat has no section)
Rendered(cat) ==
    IF \E i \in DOMAIN f_out.lines : IsHeaderLine(f_out.lines[i]) /\ f_out.lines[i][5] = cat
    THEN RenderedFrom(1 + CHOOSE i \in DOMAIN f_out.lines :
                             IsHeaderLine(f_out.lines[i]) /\ f_out.lines[i][5] = cat)
    ELSE << >>

\* the categories with an expected definition, in the fixed order
ExpectedHeaders ==
    SelectSeq(SectionOrder, LAMBDA cat : ExpectedFrom(cat, 1) # << >>)

\* what the claim says of the block: sections in the order Verb, Noun, Adjective,
\* Adverb, one per category with an entry, each showing exactly the definitions
\* of its category's entries in response order; no block when there is none
GroupedAsClaimed ==
    /\ f_out.some <=> ExpectedHeaders # << >>
    /\ RenderedHeaders = ExpectedHeaders
    /\ \A c \in 1 .. 4 : Rendered(SectionOrder[c]) = ExpectedFrom(SectionOrder[c], 1)
    /\ f_out.v = Join(f_out.lines, <<"\n">>)

\* C9 as claimed: for every response whose entries are objects with a text,
\* whatever their part of speech, format_definition raises no error and the block
\* groups exactly the entries of the four parts of speech as claimed.
C9_FormatGroupsAndNeverRaises ==
    (f_pc = "done" /\ EntriesAreObjects) => (~f_out.exc /\ GroupedAsClaimed)

\* C9 on the responses of the documented shape (every part of speech a string
\* or missing): no error, and the grouping is as claimed.
C9_OnDocumentedShape ==
    (f_pc = "done" /\ DocumentedShape) => (~f_out.exc /\ GroupedAsClaimed)

\* a response with a noun entry before a verb entry rendered the Verb section first
C9_Witness ==
    /\ f_pc = "done"
    /\ DocumentedShape
    /\ Len(InEntries) = 2
    /\ InSection(InEntries[1], "Noun")
    /\ InSection(InEntries[2], "Verb")
    /\ RenderedHeaders = <<"Verb", "Noun">>

----------------------------------------------------------------------------
(* Deck Enricher claims (Spec).                                            *)

Range(q) == {q[i] : i \in DOMAIN q}

\* the text holds the substring "Definitions:" somewhere
ContainsDefinitions(text) == \E k \in DOMAIN text : text[k] = "Definitions:"

\* the requests a step adds to the log
NewRequests == SubSeq(http_log', Len(http_log) + 1, Len(http_log'))

\* a step of the loop body (each sends the GET of its card)
LoopStep == pc = "loop" /\ Len(http_log') > Len(http_log)

CardIds == {cards[i].noteId : i \in DOMAIN cards}

\* the note a request is about: the card looked up or the note updated
TargetsCard(req, card) ==
    \/ req.action = "GET" /\ req.arg = card.Word
    \/ req.action = "updateNoteFields" /\ req.arg.id = card.noteId

\* C3, selection: when get_cards_to_update returns, the candidate list is the
\* deck's notes, in the service's order, whose Details holds no "Definitions:"
\* anywhere (a note is a candidate iff its Details does not hold it).
C3_SelectionStep ==
    (pc = "select" /\ pc' \in {"loop", "done"}) =>
        cards' = SelectSeq(deck, LAMBDA n : ~ContainsDefinitions(n.Details))

\* C3, rest of the run: every lookup and every update a run issues is about a
\* candidate, so a note holding "Definitions:" when fetched is never looked up
\* or updated in that run.
C3_OnlyCandidatesTouched ==
    /\ \A i \in DOMAIN cards : ~ContainsDefinitions(cards[i].Details)
    /\ \A r \in DOMAIN http_log :
          http_log[r].action \in {"GET", "updateNoteFields"} =>
              \E i \in DOMAIN cards : i <= idx /\ TargetsCard(http_log[r], cards[i])

\* C3: get_cards_to_update returns exactly the notes without "Definitions:", in
\* service order, and only those are looked up or updated.
C3_CandidatesAreNotesWithoutDefinitions ==
    [][C3_SelectionStep]_vars /\ []C3_OnlyCandidatesTouched

\* a finished run on a deck of two notes: the first holds "Definitions:" after a
\* line break and was left alone, the second was looked up
C3_Witness ==
    /\ pc = "done"
    /\ run = 1
    /\ Len(deck) = 2
    /\ \E k \in DOMAIN deck[1].Details :
          deck[1].Details[k] = "Definitions:" /\ "\n" \in Range(SubSeq(deck[1].Details, 1, k))
    /\ Len(cards) = 1
    /\ cards[1].noteId = deck[2].noteId
    /\ Request("GET", deck[2].Word) \in Range(http_log)
    /\ Request("GET", deck[1].Word) \notin Range(http_log)

\* C8: a failed version probe (non-OK or exception) ends the process with status
\* 1 after that one request; any other request of a run comes after a probe that
\* succeeded, the probe being the run's first request.
C8_ProbeBeforeAnyWork ==
    /\ probe \in {"notok", "exc"} =>
          /\ pc = "exit1"
          /\ exit_code = 1
          /\ http_log = <<Request("version", 0)>>
    /\ (\E r \in DOMAIN http_log : http_log[r].action # "version") =>
          /\ probe = "ok"
          /\ http_log[1].action = "version"
    /\ \A r \in DOMAIN http_log : http_log[r].action = "version" => r = 1

\* a probe that raised ended the run with one request sent
C8_Witness ==
    /\ probe = "exc"
    /\ pc = "exit1"
    /\ exit_code = 1
    /\ Len(http_log) = 1

\* the stored Details of note id
DetailsAt(d, id) == (CHOOSE n \in Range(d) : n.noteId = id).Details

\* C7, one pass: a pass that formatted a block (update_card was called) sends,
\* after its GET, exactly one updateNoteFields request, for the card's note id,
\* with the single field Details whose value is the existing Details followed by
\* the block; a pass without a block sends none; the service's notes change at
\* most in that note's Details, to the value requested.
C7_PassStep ==
    LoopStep =>
        LET card == cards[idx]
            sent == NewRequests
        IN  /\ sent[1] = Request("GET", card.Word)
            /\ IF update' # "none"
               THEN /\ Len(sent) = 2
                    /\ new_content'.some
                    /\ sent[2].action = "updateNoteFields"
                    /\ sent[2].arg.id = card.noteId
                    /\ DOMAIN sent[2].arg.fields = {"Details"}
                    /\ DetailsAt(deck, card.noteId) = card.Details
                    /\ sent[2].arg.fields.Details = card.Details \o new_content'.v
                    /\ new_content'.v # << >>
                    /\ \A i \in DOMAIN deck :
                          \/ deck'[i] = deck[i]
                          \/ /\ deck[i].noteId = card.noteId
                             /\ deck'[i] = [deck[i] EXCEPT !.Details =
                                                sent[2].arg.fields.Details]
               ELSE /\ Len(sent) = 1
                    /\ deck' = deck

\* no note is written twice in a run
C7_OneRequestPerNote ==
    \A r, q \in DOMAIN http_log :
        (/\ http_log[r].action = "updateNoteFields"
         /\ http_log[q].action = "updateNoteFields"
         /\ http_log[r].arg.id = http_log[q].arg.id) => r = q

\* C7: for every candidate with a formatted block exactly one updateNoteFields
\* request is sent, for that card's note id, whose only field is Details and
\* whose value is the existing Details followed by the block; nothing else is
\* written, and no note is written twice.
C7_UpdateAppendsToDetailsOnly ==
    [][C7_PassStep]_vars /\ []C7_OneRequestPerNote

\* a card with builder-written Details got them back followed by the block
C7_Witness ==
    /\ update = "ok"
    /\ \E r \in DOMAIN http_log :
          /\ http_log[r].action = "updateNoteFields"
          /\ Len(http_log[r].arg.fields.Details) > 3 + Len(BlockHeader)
          /\ SubSeq(http_log[r].arg.fields.Details, 1, 3) =
                <<"<div><b>Paraphrase:</b> ", "clear", "</div>">>
          /\ DetailsAt(deck, http_log[r].arg.id) = http_log[r].arg.fields.Details

\* the pass left its card alone and went on: one request (the GET, not repeated),
\* no updateNoteFields, the deck as it was, skip_count up by one, and the loop at
\* the next card, or past the last one with the summary printed
SkippedAndContinues ==
    /\ Len(NewRequests) = 1
    /\ NewRequests[1] = Request("GET", cards[idx].Word)
    /\ deck' = deck
    /\ skip_count' = skip_count + 1
    /\ success_count' = success_count
    /\ idx' = idx + 1
    /\ stdout'[Len(stdout') - (IF idx = Len(cards) THEN 1 ELSE 0)] = Line("Skipping")
    /\ IF idx = Len(cards)
       THEN pc' = "done" /\ exit_code' = 0 /\ stdout'[Len(stdout')].tag = "summary"
       ELSE pc' = "loop"

\* the entries of a dictionary body that is an object with a definition list
BodyEntries(body) ==
    IF body.k = "dict" /\ body.definition.k = "list" THEN body.definition.v ELSE << >>

\* an entry in one of the four categories with a definition text
Usable(e) ==
    /\ e.k = "dict"
    /\ e.pos.k = "str"
    /\ CategoryOf(e.pos.v) # ""
    /\ e.text.k = "str"
    /\ strip(e.text.t) # << >>

\* the lookup failed (non-OK status, network error), or answered a definition
\* list of objects none of which is usable
FailedOrNothingUsable(resp) ==
    \/ resp.status \in {"notok", "exc"}
    \/ /\ resp.status = "ok"
       /\ resp.body.k = "dict"
       /\ resp.body.definition.k = "list"
       /\ \A i \in DOMAIN BodyEntries(resp.body) :
             BodyEntries(resp.body)[i].k = "dict" /\ ~Usable(BodyEntries(resp.body)[i])

\* every entry has a part of speech and a text that are strings or missing
EntriesWellTyped(resp) ==
    \A i \in DOMAIN BodyEntries(resp.body) :
        /\ BodyEntries(resp.body)[i].pos.k \in {"str", "absent"}
        /\ BodyEntries(resp.body)[i].text.k \in {"str", "absent"}

\* C4 as claimed: every candidate whose lookup fails or whose response has no
\* usable entry is skipped: no updateNoteFields request, no retry, skip_count up
\* by exactly one, and the run goes on with the next candidate.
C4_NoDefinitionMeansSkip ==
    [][(LoopStep /\ FailedOrNothingUsable(lookup')) => SkippedAndContinues]_vars

\* C4 where it holds: the same, for failed lookups and for responses whose
\* entries carry string (or missing) pos and text.
C4_OnWellTypedEntries ==
    [][(LoopStep /\ FailedOrNothingUsable(lookup') /\ EntriesWellTyped(lookup'))
          => SkippedAndContinues]_vars

\* a body the dictionary answers with status OK that is JSON of another shape
\* than the expected one: a definition that is not a list, an entry with a null
\* pos or text
ShapeDeviates(resp) ==
    /\ resp.status = "ok"
    /\ \/ resp.body.k = "dict" /\ resp.body.definition.k \notin {"list", "absent"}
       \/ \E i \in DOMAIN BodyEntries(resp.body) :
             \/ BodyEntries(resp.body)[i].pos.k = "null"
             \/ BodyEntries(resp.body)[i].text.k = "null"

\* the body is not JSON
NotJson(resp) == resp.status = "ok" /\ resp.body.k = "invalid"

\* C6 as claimed, for a JSON body of a deviating shape: the response is recovered
\* locally: the word is skipped with a warning and the run continues instead of
\* terminating.
C6_MalformedResponseIsSkipped ==
    [][(LoopStep /\ ShapeDeviates(lookup')) => SkippedAndContinues]_vars

\* C6 for a body that is not JSON, which holds with a requests whose
\* JSONDecodeError is a RequestException (2.27 and later) and not with an older one
C6_NotJsonIsSkipped ==
    [][(LoopStep /\ NotJson(lookup') /\ json_error_is_request_exception)
          => SkippedAndContinues]_vars

\* C5 as claimed: a write-back that does not succeed (non-OK answer, or the
\* request failing) does not abort the run and is recorded in a count the run
\* keeps.
C5_FailedWriteBackCountedRunContinues ==
    [][(LoopStep /\ update' \in {"notok", "exc"}) =>
          /\ pc' # "exit1"
          /\ <<success_count, skip_count>>' # <<success_count, skip_count>>]_vars

\* C5 amended, one pass: a write-back answered with a non-OK status is logged,
\* changes neither count, and the loop goes on to the next card, or after the
\* last card to the summary and exit status 0; a write-back that raises ends the
\* run with exit status 1.
C5_PassStep ==
    LoopStep =>
        /\ update' = "notok" =>
              /\ stdout'[Len(stdout') - (IF idx = Len(cards) THEN 1 ELSE 0)] =
                    Line("Failed to update")
              /\ success_count' = success_count
              /\ skip_count' = skip_count
              /\ idx' = idx + 1
              /\ IF idx = Len(cards)
                 THEN /\ pc' = "done"
                      /\ exit_code' = 0
                      /\ stdout'[Len(stdout')] =
                            Summary(success_count, skip_count, Len(cards))
                 ELSE pc' = "loop"
        /\ update' = "exc" =>
              /\ pc' = "exit1"
              /\ exit_code' = 1
              /\ success_count' = success_count
              /\ skip_count' = skip_count

\* the printed lines that are l
CountLines(l) == Cardinality({k \in DOMAIN stdout : stdout[k] = l})

\* C5 amended, the summary: the failures appear in no count of their own; they
\* are the cards that are neither updated nor skipped.
C5_FailuresAreTheRemainder ==
    pc = "done" =>
        /\ stdout[Len(stdout)] = Summary(success_count, skip_count, Len(cards))
        /\ Len(cards) - success_count - skip_count = CountLines(Line("Failed to update"))

\* C5 amended: a write-back answered with a non-OK status is logged, enters no
\* count (the failures are total - updated - skipped of the summary) and does not
\* abort the run, which goes on to the next card or to the summary; a write-back
\* that raises ends the run with exit status 1.
C5_NonOkWriteBackLoggedUncountedRunContinues ==
    [][C5_PassStep]_vars /\ []C5_FailuresAreTheRemainder

\* a run of two candidates: the first write-back was refused, the second card was
\* still updated and the summary printed
C5_Witness ==
    /\ pc = "done"
    /\ Len(cards) = 2
    /\ stdout = <<Line("Failed to update"), Line("Successfully updated"),
                  Summary(1, 0, 2)>>

\* the definition headers in a text
CountHeaders(text) == Cardinality({k \in DOMAIN text : text[k] = "<hr><div><b>"})

\* what has been appended to the Details of the i-th note since before the first run
Appended(i) ==
    SubSeq(deck[i].Details, Len(deck0[i].Details) + 1, Len(deck[i].Details))

\* C10: over any number of runs, the Details of a note is what it was before the
\* first run followed by nothing or by one block; a block holds "Definitions:";
\* and a note is a candidate of a run only with the Details it had before the
\* first run, never with a block already appended.
C10_AtMostOneBlockPerCard ==
    /\ Len(deck) = Len(deck0)
    /\ \A i \in DOMAIN deck :
          /\ deck[i].noteId = deck0[i].noteId
          /\ Len(deck[i].Details) >= Len(deck0[i].Details)
          /\ SubSeq(deck[i].Details, 1, Len(deck0[i].Details)) = deck0[i].Details
          /\ Appended(i) # << >> =>
                /\ ContainsDefinitions(Appended(i))
                /\ CountHeaders(Appended(i)) = 1
          /\ \A j \in DOMAIN cards :
                cards[j].noteId = deck[i].noteId => cards[j].Details = deck0[i].Details

\* a later run finished without taking up the note an earlier run had enriched
C10_Witness ==
    /\ run >= 2
    /\ pc = "done"
    /\ \E i \in DOMAIN deck :
          /\ Appended(i) # << >>
          /\ deck[i].noteId \notin CardIds
    /\ \E r \in DOMAIN http_log : http_log[r].action = "notesInfo"

====
